---- MODULE Spec2Model ----
(***************************************************************************)
(* Model of provider/aws/session.go: the construction of AWS SDK handles   *)
(* (legacy-generation sessions and newer-generation configs) from the      *)
(* process configuration.                                                  *)
(*                                                                         *)
(* Go strings that are only compared are TLA+ strings; request paths,      *)
(* which are split, are sequences of one-character strings.  Pointers are  *)
(* positive integers indexing a store, 0 is nil.  An error is the sequence *)
(* of the parts of its message, outermost first, and nil is <<>>.          *)
(***************************************************************************)
EXTENDS Integers, Sequences, FiniteSets, TLC

VARIABLES cfg, pc, entry, result, idx, ret, trace, sessions, copies, path, label

vars == <<cfg, pc, entry, result, idx, ret, trace, sessions, copies, path, label>>

(* ------------------------------ bounds --------------------------------- *)

MaxProfiles == 3

MaxAPIRetries == 2

MaxPathLen == 4

Roles == {"", "arn:aws:iam::1:role/dns"}

ExternalIDs == {"", "ext-1"}

ProfileNames == {"", "a", "default"}

SDKErrors == {<<"failed to load shared config">>, <<"profile does not exist">>}

PathChars == {"/", "a", "b"}

SeqsUpTo(S, n) == UNION {[1..k -> S] : k \in 0..n}

ExamplePath ==
    <<"/", "2", "0", "1", "3", "-", "0", "4", "-", "0", "1",
      "/", "h", "o", "s", "t", "e", "d", "z", "o", "n", "e",
      "/", "Z", "A", "B", "C", "D", "E", "F", "1", "2", "3",
      "/", "r", "r", "s", "e", "t">>

Paths == SeqsUpTo(PathChars, MaxPathLen) \cup {ExamplePath}

Configs ==
    [AWSAssumeRole : Roles,
     AWSAssumeRoleExternalID : ExternalIDs,
     AWSAPIRetries : 0..MaxAPIRetries,
     AWSProfiles : SeqsUpTo(ProfileNames, MaxProfiles)]

(* ------------------------- values and helpers -------------------------- *)

NilPtr == 0

NilError == <<>>

defaultAWSProfile == "default"

(* Variant: the cause is dropped instead of wrapped (no %w operand).        *)
ErrorfWithoutCause(prefix, err) == <<prefix>>

Errorf(prefix, err) == <<prefix>> \o err

Unwrap(err) == Tail(err)

Event(op, fmt, args, err) == [op |-> op, fmt |-> fmt, args |-> args, err |-> err]

EmptyMap == [k \in {} |-> NilPtr]

MapPut(m, k, v) == [x \in (DOMAIN m) \cup {k} |-> IF x = k THEN v ELSE m[x]]

AWSSessionConfig(role, externalID, retries, profile) ==
    [AssumeRole |-> role,
     AssumeRoleExternalID |-> externalID,
     APIRetries |-> retries,
     Profile |-> profile]

(* A credentials value: kind "base" is whatever the SDK's base construction *)
(* resolved; kind "AssumeRole" is the provider this file installs.  obj is  *)
(* the identity of the provider object, ExternalID a pointer into copies.   *)
BaseCredentials(self) ==
    [kind |-> "base", obj |-> self, RoleARN |-> "", ExternalID |-> NilPtr]

AssumeRoleCredentials(self, role, externalID) ==
    [kind |-> "AssumeRole", obj |-> self, RoleARN |-> role, ExternalID |-> externalID]

(* ----------------------------- path labels ----------------------------- *)

Index(s, sep) ==
    IF \E i \in 1..Len(s) : s[i] = sep
    THEN CHOOSE i \in 1..Len(s) : s[i] = sep /\ \A j \in 1..(i - 1) : s[j] # sep
    ELSE 0

RECURSIVE Split(_, _)
Split(s, sep) ==
    LET i == Index(s, sep)
    IN  IF i = 0
        THEN <<s>>
        ELSE <<SubSeq(s, 1, i - 1)>> \o Split(SubSeq(s, i + 1, Len(s)), sep)

(* Variant: the first component instead of the last.                        *)
newSessionPathProcessorFirst(p) ==
    LET parts == Split(p, "/")
    IN  parts[1]

newSessionPathProcessor(p) ==
    LET parts == Split(p, "/")
    IN  parts[Len(parts)]

newV2ConfigPathProcessor(p) ==
    LET parts == Split(p, "/")
    IN  parts[Len(parts)]

(* --------------------------- SDK retry policy --------------------------- *)

(* aws.Config.WithMaxRetries(n): the legacy client retries a request up to  *)
(* n times after the first attempt.                                        *)
WithMaxRetries(n) == n

(* retry.AddWithMaxAttempts(r, n): the retryer reports MaxAttempts() = n,   *)
(* the total number of attempts, the first one included.                   *)
AddWithMaxAttempts(n) == n

NoRetryLimit == -1

SessionMaxRetries(s) == s.Config.MaxRetries

(* The retry middleware of the newer generation stops once the attempt      *)
(* number reaches MaxAttempts, and only when MaxAttempts is positive.       *)
V2ConfigMaxRetries(c) ==
    IF c.Retryer.MaxAttempts <= 0 THEN NoRetryLimit ELSE c.Retryer.MaxAttempts - 1

(* ------------------------------ newSession ------------------------------ *)

(* self: index of this call's by-value copy of awsConfig in copies;         *)
(* ptr: address the new session gets; sdkErr: what                          *)
(* session.NewSessionWithOptions returns as its error.                      *)
(* Variant: the reference is to one shared string instead of the call's    *)
(* own copy of awsConfig.                                                  *)
newSessionExternalIDRefShared(self) == 1

newSessionExternalIDRef(self) == self

(* Variant: the branch is keyed on the external ID instead of the role.     *)
newSessionCredentialsKeyedOnExternalID(awsConfig, self) ==
    IF awsConfig.AssumeRoleExternalID # ""
    THEN AssumeRoleCredentials(self, awsConfig.AssumeRole, newSessionExternalIDRef(self))
    ELSE IF awsConfig.AssumeRole # ""
         THEN AssumeRoleCredentials(self, awsConfig.AssumeRole, NilPtr)
         ELSE BaseCredentials(self)

newSessionCredentials(awsConfig, self) ==
    IF awsConfig.AssumeRole # ""
    THEN IF awsConfig.AssumeRoleExternalID # ""
         THEN AssumeRoleCredentials(self, awsConfig.AssumeRole, newSessionExternalIDRef(self))
         ELSE AssumeRoleCredentials(self, awsConfig.AssumeRole, NilPtr)
    ELSE BaseCredentials(self)

newSessionEvents(awsConfig) ==
    IF awsConfig.AssumeRole # ""
    THEN IF awsConfig.AssumeRoleExternalID # ""
         THEN << Event("Infof", "Assuming role: %s with external id %s",
                       <<awsConfig.AssumeRole, awsConfig.AssumeRoleExternalID>>, NilError),
                 Event("NewCredentials", "", <<awsConfig.AssumeRole>>, NilError),
                 Event("WithCredentials", "", <<>>, NilError) >>
         ELSE << Event("Infof", "Assuming role: %s", <<awsConfig.AssumeRole>>, NilError),
                 Event("NewCredentials", "", <<awsConfig.AssumeRole>>, NilError),
                 Event("WithCredentials", "", <<>>, NilError) >>
    ELSE <<>>

newSession(awsConfig, self, ptr, sdkErr) ==
    LET base == Event("NewSessionWithOptions", "", <<awsConfig.Profile>>, sdkErr)
    IN  IF sdkErr # NilError
        THEN [session |-> NilPtr,
              store |-> <<>>,
              err |-> Errorf("instantiating AWS session", sdkErr),
              events |-> <<base>>]
        ELSE [session |-> ptr,
              store |-> << [Config |-> [MaxRetries |-> WithMaxRetries(awsConfig.APIRetries),
                                        HTTPClient |-> "newSessionPathProcessor",
                                        Credentials |-> newSessionCredentials(awsConfig, self)],
                            Profile |-> awsConfig.Profile,
                            BuildHandlers |-> <<"ExternalDNS">>] >>,
              err |-> NilError,
              events |-> <<base>> \o newSessionEvents(awsConfig)
                         \o <<Event("PushBack", "", <<"ExternalDNS">>, NilError)>>]

(* ------------------------------ newV2Config ----------------------------- *)

ZeroV2Config ==
    [Retryer |-> [MaxAttempts |-> 0],
     HTTPClient |-> "",
     Profile |-> "",
     Credentials |-> [kind |-> "", obj |-> NilPtr, RoleARN |-> "", ExternalID |-> NilPtr]]

newV2ConfigExternalIDRef(self) == self

(* Variant: the external-ID option is passed whether or not the ID is empty. *)
newV2ConfigCredentialsAlwaysExternalID(awsConfig, self) ==
    IF awsConfig.AssumeRole # ""
    THEN AssumeRoleCredentials(self, awsConfig.AssumeRole, newV2ConfigExternalIDRef(self))
    ELSE BaseCredentials(self)

newV2ConfigCredentials(awsConfig, self) ==
    IF awsConfig.AssumeRole # ""
    THEN IF awsConfig.AssumeRoleExternalID # ""
         THEN AssumeRoleCredentials(self, awsConfig.AssumeRole, newV2ConfigExternalIDRef(self))
         ELSE AssumeRoleCredentials(self, awsConfig.AssumeRole, NilPtr)
    ELSE BaseCredentials(self)

(* Variant: no log line on the branch without an external ID.               *)
newV2ConfigEventsSilentWithoutExternalID(awsConfig) ==
    IF awsConfig.AssumeRole # ""
    THEN <<Event("sts.NewFromConfig", "", <<>>, NilError)>>
         \o (IF awsConfig.AssumeRoleExternalID # ""
             THEN <<Event("Infof", "Assuming role: %s with external id %s",
                          <<awsConfig.AssumeRole, awsConfig.AssumeRoleExternalID>>, NilError)>>
             ELSE <<>>)
         \o << Event("NewAssumeRoleProvider", "", <<awsConfig.AssumeRole>>, NilError),
               Event("NewCredentialsCache", "", <<>>, NilError) >>
    ELSE <<>>

newV2ConfigEvents(awsConfig) ==
    IF awsConfig.AssumeRole # ""
    THEN <<Event("sts.NewFromConfig", "", <<>>, NilError)>>
         \o (IF awsConfig.AssumeRoleExternalID # ""
             THEN <<Event("Infof", "Assuming role: %s with external id %s",
                          <<awsConfig.AssumeRole, awsConfig.AssumeRoleExternalID>>, NilError)>>
             ELSE <<Event("Infof", "Assuming role: %s", <<awsConfig.AssumeRole>>, NilError)>>)
         \o << Event("NewAssumeRoleProvider", "", <<awsConfig.AssumeRole>>, NilError),
               Event("NewCredentialsCache", "", <<>>, NilError) >>
    ELSE <<>>

newV2Config(awsConfig, self, sdkErr) ==
    LET base == Event("LoadDefaultConfig", "", <<awsConfig.Profile>>, sdkErr)
    IN  IF sdkErr # NilError
        THEN [config |-> ZeroV2Config,
              err |-> Errorf("instantiating AWS config", sdkErr),
              events |-> <<base>>]
        ELSE [config |-> [Retryer |-> [MaxAttempts |-> AddWithMaxAttempts(awsConfig.APIRetries)],
                          HTTPClient |-> "newV2ConfigPathProcessor",
                          Profile |-> awsConfig.Profile,
                          Credentials |-> newV2ConfigCredentials(awsConfig, self)],
              err |-> NilError,
              events |-> <<base>> \o newV2ConfigEvents(awsConfig)]

(* ----------------------------- entry points ----------------------------- *)

NoReturn == [session |-> NilPtr, config |-> ZeroV2Config, sessions |-> EmptyMap]

Fatal(err) == Event("Fatal", "", <<>>, err)

CreateDefaultV2ConfigArg(c) ==
    AWSSessionConfig(c.AWSAssumeRole, c.AWSAssumeRoleExternalID, c.AWSAPIRetries, "")

CreateDefaultSessionArg(c) ==
    AWSSessionConfig(c.AWSAssumeRole, c.AWSAssumeRoleExternalID, c.AWSAPIRetries, "")

CreateSessionsDefaultArg(c) ==
    AWSSessionConfig(c.AWSAssumeRole, c.AWSAssumeRoleExternalID, c.AWSAPIRetries, "")

(* Variant: the profile name is not passed on.                              *)
CreateSessionsProfileArgWithoutProfile(c, profile) ==
    AWSSessionConfig(c.AWSAssumeRole, c.AWSAssumeRoleExternalID, c.AWSAPIRetries, "")

CreateSessionsProfileArg(c, profile) ==
    AWSSessionConfig(c.AWSAssumeRole, c.AWSAssumeRoleExternalID, c.AWSAPIRetries, profile)

(* Variant: only the empty list counts as "no profiles".                    *)
NoProfilesOnlyEmpty(profiles) == Len(profiles) = 0

NoProfiles(profiles) ==
    Len(profiles) = 0 \/ (Len(profiles) = 1 /\ profiles[1] = "")

Init ==
    /\ cfg \in Configs
    /\ pc = "start"
    /\ entry = ""
    /\ result = EmptyMap
    /\ idx = 1
    /\ ret = NoReturn
    /\ trace = <<>>
    /\ sessions = <<>>
    /\ copies = <<>>
    /\ path = <<>>
    /\ label = <<>>

CreateDefaultV2Config ==
    /\ pc = "start"
    /\ \E sdkErr \in {NilError} \cup SDKErrors :
         LET arg == CreateDefaultV2ConfigArg(cfg)
             r == newV2Config(arg, Len(copies) + 1, sdkErr)
         IN  /\ entry' = "CreateDefaultV2Config"
             /\ copies' = Append(copies, arg)
             /\ IF r.err # NilError
                THEN /\ trace' = trace \o r.events \o <<Fatal(r.err)>>
                     /\ pc' = "exited"
                     /\ ret' = ret
                ELSE /\ trace' = trace \o r.events
                     /\ pc' = "returned"
                     /\ ret' = [ret EXCEPT !.config = r.config]
    /\ UNCHANGED <<cfg, result, idx, sessions, path, label>>

CreateDefaultSession ==
    /\ pc = "start"
    /\ \E sdkErr \in {NilError} \cup SDKErrors :
         LET arg == CreateDefaultSessionArg(cfg)
             r == newSession(arg, Len(copies) + 1, Len(sessions) + 1, sdkErr)
         IN  /\ entry' = "CreateDefaultSession"
             /\ copies' = Append(copies, arg)
             /\ sessions' = sessions \o r.store
             /\ IF r.err # NilError
                THEN /\ trace' = trace \o r.events \o <<Fatal(r.err)>>
                     /\ pc' = "exited"
                     /\ ret' = ret
                ELSE /\ trace' = trace \o r.events
                     /\ pc' = "returned"
                     /\ ret' = [ret EXCEPT !.session = r.session]
    /\ UNCHANGED <<cfg, result, idx, path, label>>

CreateSessionsEnter ==
    /\ pc = "start"
    /\ entry' = "CreateSessions"
    /\ result' = EmptyMap
    /\ idx' = 1
    /\ pc' = IF NoProfiles(cfg.AWSProfiles) THEN "default" ELSE "range"
    /\ UNCHANGED <<cfg, ret, trace, sessions, copies, path, label>>

CreateSessionsDefault ==
    /\ pc = "default"
    /\ \E sdkErr \in {NilError} \cup SDKErrors :
         LET arg == CreateSessionsDefaultArg(cfg)
             r == newSession(arg, Len(copies) + 1, Len(sessions) + 1, sdkErr)
         IN  /\ copies' = Append(copies, arg)
             /\ sessions' = sessions \o r.store
             /\ IF r.err # NilError
                THEN /\ trace' = trace \o r.events \o <<Fatal(r.err)>>
                     /\ pc' = "exited"
                     /\ result' = result
                ELSE /\ trace' = trace \o r.events
                     /\ pc' = "return"
                     /\ result' = MapPut(result, defaultAWSProfile, r.session)
    /\ UNCHANGED <<cfg, entry, idx, ret, path, label>>

(* Variant: a failed build is logged and skipped, and the loop goes on.      *)
CreateSessionsRangeSkippingFailures ==
    /\ pc = "range"
    /\ idx <= Len(cfg.AWSProfiles)
    /\ \E sdkErr \in {NilError} \cup SDKErrors :
         LET profile == cfg.AWSProfiles[idx]
             arg == CreateSessionsProfileArg(cfg, profile)
             r == newSession(arg, Len(copies) + 1, Len(sessions) + 1, sdkErr)
         IN  /\ copies' = Append(copies, arg)
             /\ sessions' = sessions \o r.store
             /\ trace' = trace \o r.events
             /\ pc' = IF idx = Len(cfg.AWSProfiles) THEN "return" ELSE "range"
             /\ result' = IF r.err # NilError THEN result
                           ELSE MapPut(result, profile, r.session)
             /\ idx' = idx + 1
    /\ UNCHANGED <<cfg, entry, ret, path, label>>

CreateSessionsRange ==
    /\ pc = "range"
    /\ idx <= Len(cfg.AWSProfiles)
    /\ \E sdkErr \in {NilError} \cup SDKErrors :
         LET profile == cfg.AWSProfiles[idx]
             arg == CreateSessionsProfileArg(cfg, profile)
             r == newSession(arg, Len(copies) + 1, Len(sessions) + 1, sdkErr)
         IN  /\ copies' = Append(copies, arg)
             /\ sessions' = sessions \o r.store
             /\ IF r.err # NilError
                THEN /\ trace' = trace \o r.events \o <<Fatal(r.err)>>
                     /\ pc' = "exited"
                     /\ result' = result
                     /\ idx' = idx
                ELSE /\ trace' = trace \o r.events
                     /\ pc' = IF idx = Len(cfg.AWSProfiles) THEN "return" ELSE "range"
                     /\ result' = MapPut(result, profile, r.session)
                     /\ idx' = idx + 1
    /\ UNCHANGED <<cfg, entry, ret, path, label>>

CreateSessionsReturn ==
    /\ pc = "return"
    /\ ret' = [ret EXCEPT !.sessions = result]
    /\ pc' = "returned"
    /\ UNCHANGED <<cfg, entry, result, idx, trace, sessions, copies, path, label>>

Next ==
    \/ CreateDefaultV2Config
    \/ CreateDefaultSession
    \/ CreateSessionsEnter
    \/ CreateSessionsDefault
    \/ CreateSessionsRange
    \/ CreateSessionsReturn

Spec == Init /\ [][Next]_vars

(* ------------------- requests through the instrumented client ----------- *)

InitPath ==
    /\ cfg = [AWSAssumeRole |-> "", AWSAssumeRoleExternalID |-> "",
              AWSAPIRetries |-> 0, AWSProfiles |-> <<>>]
    /\ pc = "request"
    /\ entry = ""
    /\ result = EmptyMap
    /\ idx = 1
    /\ ret = NoReturn
    /\ trace = <<>>
    /\ sessions = <<>>
    /\ copies = <<>>
    /\ path \in Paths
    /\ label = <<>>

RoundTripSession ==
    /\ pc = "request"
    /\ entry' = "newSession"
    /\ label' = newSessionPathProcessor(path)
    /\ pc' = "labelled"
    /\ UNCHANGED <<cfg, result, idx, ret, trace, sessions, copies, path>>

RoundTripV2Config ==
    /\ pc = "request"
    /\ entry' = "newV2Config"
    /\ label' = newV2ConfigPathProcessor(path)
    /\ pc' = "labelled"
    /\ UNCHANGED <<cfg, result, idx, ret, trace, sessions, copies, path>>

NextPath ==
    \/ RoundTripSession
    \/ RoundTripV2Config

SpecPath == InitPath /\ [][NextPath]_vars

(* ------------------------- vocabulary of the claims ---------------------- *)

IsBase(e) == e.op \in {"NewSessionWithOptions", "LoadDefaultConfig"}

IsProviderConstruction(e) == e.op \in {"NewCredentials", "NewAssumeRoleProvider"}

RoleAssumptionOps ==
    {"Infof", "sts.NewFromConfig", "NewCredentials", "WithCredentials",
     "NewAssumeRoleProvider", "NewCredentialsCache"}

Positions(P(_)) == {i \in 1..Len(trace) : P(trace[i])}

IsInfof(e) == e.op = "Infof"

IsGoodBase(e) == IsBase(e) /\ e.err = NilError

IsBadBase(e) == IsBase(e) /\ e.err # NilError

Contains(msg, part) ==
    \E i \in 1..(Len(msg) - Len(part) + 1) : SubSeq(msg, i, i + Len(part) - 1) = part

Names(profiles) == {profiles[i] : i \in 1..Len(profiles)}

ListIsEmptyOrBlank == cfg.AWSProfiles = <<>> \/ cfg.AWSProfiles = <<"">>

(* Every handle a finished entry point has handed to its caller, with the   *)
(* credentials it holds.                                                    *)
ReturnedCredentials ==
    IF pc # "returned" THEN {}
    ELSE IF entry = "CreateDefaultV2Config" THEN {ret.config.Credentials}
    ELSE IF entry = "CreateDefaultSession" THEN {sessions[ret.session].Config.Credentials}
    ELSE {sessions[ret.sessions[k]].Config.Credentials : k \in DOMAIN ret.sessions}

(* -------------------------------- claims -------------------------------- *)

(* C1: when cfg.AWSProfiles is empty or exactly [""], CreateSessions returns *)
(* a map with exactly one entry, keyed by defaultAWSProfile, whose handle is *)
(* the one newSession builds from the SessionConfig CreateDefaultSession     *)
(* uses: role, external ID and retries from cfg, Profile empty.              *)
C1_DefaultEntry ==
    (entry = "CreateSessions" /\ pc = "returned" /\ ListIsEmptyOrBlank) =>
        /\ DOMAIN ret.sessions = {defaultAWSProfile}
        /\ Len(copies) = 1
        /\ copies[1] = CreateDefaultSessionArg(cfg)
        /\ copies[1].Profile = ""
        /\ copies[1].AssumeRole = cfg.AWSAssumeRole
        /\ copies[1].AssumeRoleExternalID = cfg.AWSAssumeRoleExternalID
        /\ copies[1].APIRetries = cfg.AWSAPIRetries
        /\ ret.sessions[defaultAWSProfile] # NilPtr
        /\ <<sessions[ret.sessions[defaultAWSProfile]]>>
             = newSession(CreateDefaultSessionArg(cfg), 1, 1, NilError).store

C1_Witness ==
    /\ entry = "CreateSessions"
    /\ pc = "returned"
    /\ cfg.AWSProfiles = <<"">>
    /\ DOMAIN ret.sessions = {defaultAWSProfile}

(* C2: for a profile list that is neither empty nor [""], when every build   *)
(* succeeds, the key set of the returned map is exactly the set of names in  *)
(* the list (one entry per distinct name), each handle is built with Profile *)
(* equal to its key, and the default key is present only when it is listed.  *)
C2_OneEntryPerName ==
    (entry = "CreateSessions" /\ pc = "returned" /\ ~ListIsEmptyOrBlank) =>
        /\ DOMAIN ret.sessions = Names(cfg.AWSProfiles)
        /\ Cardinality(DOMAIN ret.sessions) = Cardinality(Names(cfg.AWSProfiles))
        /\ \A k \in DOMAIN ret.sessions :
             /\ ret.sessions[k] \in 1..Len(sessions)
             /\ sessions[ret.sessions[k]].Profile = k
        /\ (defaultAWSProfile \in DOMAIN ret.sessions
              => \E i \in 1..Len(cfg.AWSProfiles) : cfg.AWSProfiles[i] = defaultAWSProfile)

C2_Witness ==
    /\ entry = "CreateSessions"
    /\ pc = "returned"
    /\ cfg.AWSProfiles = <<"", "a", "a">>
    /\ DOMAIN ret.sessions = {"", "a"}
    /\ sessions[ret.sessions["a"]].Profile = "a"

(* C3: for every APIRetries >= 0 the handle of newSession and the handle of  *)
(* newV2Config both have an effective maximum number of retries equal to     *)
(* APIRetries.                                                               *)
C3_SameRetryPolicy ==
    pc = "returned" =>
        /\ entry = "CreateDefaultSession"
             => SessionMaxRetries(sessions[ret.session]) = cfg.AWSAPIRetries
        /\ entry = "CreateSessions"
             => \A k \in DOMAIN ret.sessions :
                    SessionMaxRetries(sessions[ret.sessions[k]]) = cfg.AWSAPIRetries
        /\ entry = "CreateDefaultV2Config"
             => V2ConfigMaxRetries(ret.config) = cfg.AWSAPIRetries

(* C4: when AssumeRole is empty, whatever AssumeRoleExternalID is, no handle *)
(* gets a role-assumption provider: each keeps the credentials of the base   *)
(* construction, no external-ID reference is held, and nothing of the        *)
(* role-assumption branch (the "Assuming role" log line included) happens.   *)
C4_NoRoleNoProvider ==
    cfg.AWSAssumeRole = "" =>
        /\ \A i \in 1..Len(sessions) :
             /\ sessions[i].Config.Credentials.kind = "base"
             /\ sessions[i].Config.Credentials.ExternalID = NilPtr
        /\ \A c \in ReturnedCredentials : c.kind = "base" /\ c.ExternalID = NilPtr
        /\ \A i \in 1..Len(trace) : trace[i].op \notin RoleAssumptionOps

C4_Witness ==
    /\ cfg.AWSAssumeRole = ""
    /\ cfg.AWSAssumeRoleExternalID # ""
    /\ pc = "returned"
    /\ entry = "CreateDefaultSession"
    /\ sessions[ret.session].Config.Credentials.kind = "base"

(* C5: when AssumeRole is non-empty and base construction succeeds, every    *)
(* handle of either generation holds a role-assumption provider for exactly  *)
(* that role; its external ID refers to the given AssumeRoleExternalID when  *)
(* that is non-empty and is left unset (nil, not "") when it is empty.       *)
C5_CredentialsOK(c) ==
    /\ c.kind = "AssumeRole"
    /\ c.RoleARN = cfg.AWSAssumeRole
    /\ IF cfg.AWSAssumeRoleExternalID # ""
       THEN /\ c.ExternalID \in 1..Len(copies)
            /\ copies[c.ExternalID].AssumeRoleExternalID = cfg.AWSAssumeRoleExternalID
       ELSE c.ExternalID = NilPtr

C5_RoleProviderInstalled ==
    cfg.AWSAssumeRole # "" =>
        /\ \A i \in 1..Len(sessions) : C5_CredentialsOK(sessions[i].Config.Credentials)
        /\ \A c \in ReturnedCredentials : C5_CredentialsOK(c)

C5_Witness ==
    /\ cfg.AWSAssumeRole # ""
    /\ cfg.AWSAssumeRoleExternalID = ""
    /\ pc = "returned"
    /\ entry = "CreateDefaultV2Config"
    /\ ret.config.Credentials.kind = "AssumeRole"
    /\ ret.config.Credentials.ExternalID = NilPtr

(* C6: the PathProcessor of either generation maps every request path to its *)
(* last component after splitting on "/": the label holds no "/", is the     *)
(* part of the path after its last "/" (the whole path when there is none,   *)
(* empty when the path is empty or ends with "/"), is "rrset" for            *)
(* "/2013-04-01/hostedzone/ZABCDEF123/rrset", and both generations agree.    *)
C6_LastPathComponent ==
    pc = "labelled" =>
        LET n == Len(path)
            m == Len(label)
        IN  /\ \A i \in 1..m : label[i] # "/"
            /\ m <= n
            /\ label = SubSeq(path, n - m + 1, n)
            /\ (m < n => path[n - m] = "/")
            /\ ((\A i \in 1..n : path[i] # "/") => label = path)
            /\ ((n = 0 \/ path[n] = "/") => label = <<>>)
            /\ (path = ExamplePath => label = <<"r", "r", "s", "e", "t">>)
            /\ label = newSessionPathProcessor(path)
            /\ label = newV2ConfigPathProcessor(path)

C6_Witness ==
    /\ pc = "labelled"
    /\ entry = "newSession"
    /\ path = ExamplePath
    /\ label = <<"r", "r", "s", "e", "t">>

(* C7: when the SDK fails base construction, newSession / newV2Config return *)
(* an error wrapping the original failure and no usable handle, with nothing *)
(* of the role-assumption branch and no user-agent handler, and the entry    *)
(* point logs that error at fatal level and terminates without returning.    *)
C7_BaseFailureIsFatal ==
    /\ pc = "exited" =>
        LET n == Len(trace)
            cause == trace[n - 1].err
            arg == copies[Len(copies)]
        IN  /\ n >= 2
            /\ trace[n].op = "Fatal"
            /\ IsBadBase(trace[n - 1])
            /\ cause \in SDKErrors
            /\ Unwrap(trace[n].err) = cause
            /\ Contains(trace[n].err, cause)
            /\ trace[n].err # cause
            /\ ret = NoReturn
            /\ ~ENABLED Next
            /\ Cardinality(Positions(IsBadBase)) = 1
            /\ Len(sessions) = Cardinality(Positions(IsGoodBase))
            /\ IF entry = "CreateDefaultV2Config"
               THEN LET r == newV2Config(arg, Len(copies), cause)
                    IN  r.config = ZeroV2Config /\ r.err = trace[n].err
               ELSE LET r == newSession(arg, Len(copies), Len(sessions) + 1, cause)
                    IN  r.session = NilPtr /\ r.store = <<>> /\ r.err = trace[n].err
    /\ pc # "exited" => Positions(IsBadBase) = {}

C7_Witness ==
    /\ pc = "exited"
    /\ entry = "CreateDefaultV2Config"
    /\ cfg.AWSAssumeRole # ""
    /\ trace[Len(trace)].err = <<"instantiating AWS config", "profile does not exist">>
    /\ ret = NoReturn

(* C8: in CreateSessions a failure building any one profile's handle ends    *)
(* the process at the first failing profile in list order: no handle is      *)
(* built for a later profile, nothing more happens, and no map is returned;  *)
(* a map is returned only when every requested handle was built.             *)
C8_FirstFailureEndsAll ==
    entry = "CreateSessions" =>
        /\ pc = "exited" =>
             /\ ret = NoReturn
             /\ ~ENABLED Next
             /\ trace[Len(trace)].op = "Fatal"
             /\ Positions(IsBadBase) = {Len(trace) - 1}
             /\ Cardinality(Positions(IsBase)) = Len(copies)
             /\ ~ListIsEmptyOrBlank =>
                  /\ Len(copies) <= Len(cfg.AWSProfiles)
                  /\ \A i \in 1..Len(copies) : copies[i].Profile = cfg.AWSProfiles[i]
                  /\ Len(sessions) = Len(copies) - 1
        /\ pc = "returned" =>
             /\ Positions(IsBadBase) = {}
             /\ \A k \in DOMAIN ret.sessions : ret.sessions[k] \in 1..Len(sessions)
             /\ ~ListIsEmptyOrBlank =>
                  /\ Len(copies) = Len(cfg.AWSProfiles)
                  /\ Len(sessions) = Len(cfg.AWSProfiles)
        /\ pc \notin {"returned"} => ret = NoReturn

C8_Witness ==
    /\ entry = "CreateSessions"
    /\ pc = "exited"
    /\ Len(cfg.AWSProfiles) = 3
    /\ Len(copies) = 2
    /\ Len(sessions) = 1
    /\ ret = NoReturn

(* C9: whenever AssumeRole is non-empty and base construction succeeds, each *)
(* call of either generation logs exactly one line naming the role (and the  *)
(* external ID when non-empty), and logs it before the role-assumption       *)
(* provider is constructed and installed, with or without an external ID.    *)
C9_InfofOK(e) ==
    IF cfg.AWSAssumeRoleExternalID # ""
    THEN /\ e.fmt = "Assuming role: %s with external id %s"
         /\ e.args = <<cfg.AWSAssumeRole, cfg.AWSAssumeRoleExternalID>>
    ELSE /\ e.fmt = "Assuming role: %s"
         /\ e.args = <<cfg.AWSAssumeRole>>

C9_LogBeforeProvider ==
    cfg.AWSAssumeRole # "" =>
        /\ Cardinality(Positions(IsInfof)) = Cardinality(Positions(IsGoodBase))
        /\ Cardinality(Positions(IsProviderConstruction)) = Cardinality(Positions(IsGoodBase))
        /\ \A i \in Positions(IsInfof) : C9_InfofOK(trace[i])
        /\ \A i \in Positions(IsProviderConstruction) :
             /\ i > 1
             /\ IsInfof(trace[i - 1])
        /\ \A i \in Positions(IsInfof) :
             \E b \in Positions(IsGoodBase) :
                 /\ b < i
                 /\ \A j \in (b + 1)..(i - 1) : ~IsBase(trace[j]) /\ ~IsInfof(trace[j])

C9_Witness ==
    /\ cfg.AWSAssumeRole # ""
    /\ cfg.AWSAssumeRoleExternalID = ""
    /\ pc = "returned"
    /\ entry = "CreateDefaultV2Config"
    /\ \E i \in 1..Len(trace) : trace[i].fmt = "Assuming role: %s"

(* C10: the handles CreateSessions builds are independent: every call of     *)
(* newSession has its own copy of the SessionConfig, no two handles share a  *)
(* credentials provider or an external-ID reference, distinct keys hold      *)
(* distinct handles, and building a later handle changes no handle, copy or  *)
(* map entry that already exists (other than the entry of the key written).  *)
C10_Separate ==
    /\ \A i, j \in 1..Len(sessions) :
         i # j =>
            /\ sessions[i].Config.Credentials.obj # sessions[j].Config.Credentials.obj
            /\ (sessions[i].Config.Credentials.ExternalID # NilPtr
                  => sessions[i].Config.Credentials.ExternalID
                       # sessions[j].Config.Credentials.ExternalID)
    /\ \A k, l \in DOMAIN result : k # l => result[k] # result[l]
    /\ \A k \in DOMAIN result : result[k] \in 1..Len(sessions)

C10_Frame ==
    /\ Len(sessions') >= Len(sessions)
    /\ \A i \in 1..Len(sessions) : sessions'[i] = sessions[i]
    /\ Len(copies') >= Len(copies)
    /\ \A i \in 1..Len(copies) : copies'[i] = copies[i]
    /\ \A k \in DOMAIN result :
         /\ k \in DOMAIN result'
         /\ (result'[k] # result[k]
               => /\ pc = "range"
                  /\ k = cfg.AWSProfiles[idx]
                  /\ result'[k] = Len(sessions'))

====
